---- MODULE Spec2Model ----
(***************************************************************************)
(* Lazy generators of the utilities library: range, enumerate and zip,     *)
(* driven either by a ranged-for loop (begin cursor against the end        *)
(* sentinel) or by a client that calls operator bool, operator* and        *)
(* operator++ directly in any order.                                       *)
(*                                                                         *)
(* int64_t is modelled as a W-bit two's complement integer.  Signed        *)
(* overflow and incrementing an iterator that is at or past its end are    *)
(* undefined behaviour; the variable build holds what the build makes of   *)
(* it: a "release" build wraps integers and keeps moving the iterator      *)
(* (to the next address for contiguous storage, or around the sentinel     *)
(* node back to the first element for a node-based list), a "checked"      *)
(* build (trapping arithmetic, checked iterators) aborts the program.      *)
(***************************************************************************)
EXTENDS Integers, Sequences, FiniteSets, TLC

\* Width of the signed integer type standing for int64_t.
W == 3
\* Longest input sequence handed to enumerate or zip.
MaxLen == 2
\* Largest number of inputs handed to zip.
MaxN == 2
\* How far past its end a position marker of a release build is followed.
MaxPast == 1

MinInt == -(2 ^ (W - 1))
MaxInt == (2 ^ (W - 1)) - 1
IntW == MinInt .. MaxInt
\* Most values a ranged-for loop is followed for (loops that never end).
MaxOut == (2 ^ W) + 1

\* Advances that are counted; the count stays at this number once reached.
MaxAdvances == MaxLen + 1

Elems == {1, 2}

Overflows(x) == x < MinInt \/ x > MaxInt
Wrap(x) == ((x - MinInt) % (2 ^ W)) + MinInt

SeqsUpTo(S, n) == UNION {[1 .. k -> S] : k \in 0 .. n}
Iterables == SeqsUpTo(Elems, MaxLen)

VARIABLES
    gen,      \* the generator object: its member variables
    ctor,     \* the arguments the generator was constructed from
    build,    \* "release" or "checked": what undefined behaviour does
    status,   \* "ok", or "aborted" once the program has been aborted
    mode,     \* "loop": driven by a ranged-for; "free": driven directly
    pc,       \* position of the ranged-for loop
    out,      \* the values the loop body has received, in order
    last_op,  \* the last operator called on the generator
    hm,       \* result of the last operator bool since the last operator++
    cur,      \* result of the last operator* since the last operator++
    advances, \* number of operator++ calls carried out, up to MaxAdvances
    twin      \* the util::gen::Enumerator made from the same arguments as an
              \* enumerate and given the same calls (NoTwin when there is none)

vars == <<gen, ctor, build, status, mode, pc, out, last_op, hm, cur, advances, twin>>

----------------------------------------------------------------------------
(* range *)

\* Mutant: every range starts at 0.
RangeImpl_from_zero(begin, end, step) ==
    LET comparison_mod == IF step < 0 THEN -1 ELSE 1
    IN  [kind            |-> "range",
         val_            |-> 0,
         step_           |-> step,
         comparison_mod_ |-> comparison_mod,
         modded_end_     |-> Wrap(end * comparison_mod)]

\* RangeImpl::RangeImpl: the member initialisers.
RangeImpl(begin, end, step) ==
    LET comparison_mod == IF step < 0 THEN -1 ELSE 1
    IN  [kind            |-> "range",
         val_            |-> begin,
         step_           |-> step,
         comparison_mod_ |-> comparison_mod,
         modded_end_     |-> Wrap(end * comparison_mod)]

\* end * comparison_mod_ overflows in the constructor.
RangeImpl_overflows(begin, end, step) ==
    Overflows(end * (IF step < 0 THEN -1 ELSE 1))

\* The three range() shortcuts.
range_end(end) == RangeImpl(0, end, 1)
range_begin_end(begin, end) == RangeImpl(begin, end, 1)
range_begin_end_step(begin, end, step) == RangeImpl(begin, end, step)

RangeImpl_deref(g) == g.val_

\* Mutant: the increment moves the end bound along with the value.
RangeImpl_inc_moving_end(g) ==
    [g EXCEPT !.val_ = Wrap(g.val_ + g.step_),
              !.modded_end_ = Wrap(g.modded_end_ + g.step_)]

RangeImpl_inc(g) == [g EXCEPT !.val_ = Wrap(g.val_ + g.step_)]
RangeImpl_inc_overflows(g) == Overflows(g.val_ + g.step_)

\* Mutant: the end is taken as inclusive.
RangeImpl_bool_inclusive(g) == Wrap(g.val_ * g.comparison_mod_) <= g.modded_end_

RangeImpl_bool(g) == Wrap(g.val_ * g.comparison_mod_) < g.modded_end_
RangeImpl_bool_overflows(g) == Overflows(g.val_ * g.comparison_mod_)

----------------------------------------------------------------------------
(* position markers of the input sequences *)

\* A marker is the number of elements before it; std::end is Len(iterable).
std_begin(iterable) == 0
std_end(iterable) == Len(iterable)

\* ++iter: defined before the end; at or past the end the release build
\* moves on ("next") or, at the end of a node-based list, around to the
\* first element ("around").
PastEndOutcomes == {"next", "around"}
iter_inc(iter, iterable, o) ==
    IF iter < std_end(iterable) THEN iter + 1
    ELSE IF o = "around" /\ iter = std_end(iterable) THEN 0
    ELSE iter + 1
iter_inc_undefined(iter, iterable) == iter >= std_end(iterable)

\* *iter: the element under the marker.  At or past the end no element is
\* there and the read is undefined: it produces whatever is found there, an
\* element value or some other value (0 stands for every value that is no
\* element).
Garbage == Elems \cup {0}
iter_deref(iter, iterable, garbage) ==
    IF iter + 1 \in DOMAIN iterable THEN iterable[iter + 1] ELSE garbage
iter_deref_undefined(iter, iterable) == iter + 1 \notin DOMAIN iterable

----------------------------------------------------------------------------
(* enumerate *)

\* EnumerateState: the index and the marker.
EnumerateState(idx, iter) == [idx_ |-> idx, iter_ |-> iter]

\* Mutant: the state starts counting at 0 whatever the starting index.
enumerate_from_zero(iterable, starting_idx) ==
    [kind          |-> "enumerate",
     iterable_     |-> iterable,
     starting_idx_ |-> starting_idx,
     state_        |-> EnumerateState(0, std_begin(iterable))]

\* enumerate{iterable, starting_idx}: aggregate initialisation, then the
\* default member initialiser of state_.
enumerate(iterable, starting_idx) ==
    [kind          |-> "enumerate",
     iterable_     |-> iterable,
     starting_idx_ |-> starting_idx,
     state_        |-> EnumerateState(starting_idx, std_begin(iterable))]

enumerate_deref(g) == g.state_

\* Mutant: the marker moves, the index does not.
enumerate_inc_marker_only(g, o) ==
    [g EXCEPT !.state_ = EnumerateState(g.state_.idx_,
                                        iter_inc(g.state_.iter_, g.iterable_, o))]

enumerate_inc(g, o) ==
    [g EXCEPT !.state_ = EnumerateState(Wrap(g.state_.idx_ + 1),
                                        iter_inc(g.state_.iter_, g.iterable_, o))]
enumerate_inc_undefined(g) ==
    \/ Overflows(g.state_.idx_ + 1)
    \/ iter_inc_undefined(g.state_.iter_, g.iterable_)

enumerate_bool(g) == g.state_.iter_ # std_end(g.iterable_)

\* EnumerateState::get<N>, N = 0 or 1.
EnumerateState_get(state, iterable, N, garbage) ==
    IF N = 0 THEN state.idx_ ELSE iter_deref(state.iter_, iterable, garbage)

----------------------------------------------------------------------------
(* util::gen::Enumerator, the enumerate of include/util/gen/enumerator.h *)

EnumeratorState(idx, iter) == [idx_ |-> idx, iter_ |-> iter]

\* EnumeratorImpl{iterable, starting_idx} with the default member
\* initialiser of state_.
EnumeratorImpl(iterable, starting_idx) ==
    [kind          |-> "enumerator",
     iterable_     |-> iterable,
     starting_idx_ |-> starting_idx,
     state_        |-> EnumeratorState(starting_idx, std_begin(iterable))]

EnumeratorImpl_deref(t) == t.state_

\* Mutant: the increment moves the marker and leaves the index.
EnumeratorImpl_inc_marker_only(t, o) ==
    [t EXCEPT !.state_ = EnumeratorState(t.state_.idx_,
                                         iter_inc(t.state_.iter_, t.iterable_, o))]

EnumeratorImpl_inc(t, o) ==
    [t EXCEPT !.state_ = EnumeratorState(Wrap(t.state_.idx_ + 1),
                                         iter_inc(t.state_.iter_, t.iterable_, o))]

EnumeratorImpl_bool(t) == t.state_.iter_ # std_end(t.iterable_)

\* EnumeratorState::get<N>, N = 0 or 1.
EnumeratorState_get(state, iterable, N, garbage) ==
    IF N = 0 THEN state.idx_ ELSE iter_deref(state.iter_, iterable, garbage)

\* util::gen::enumerate(iterable) and enumerate(iterable, starting_idx):
\* an Enumerator over an lvalue; an rvalue is rejected by static_assert, so
\* no program with it exists.
NoTwin == [kind |-> "none"]
util_gen_enumerate(iterable, starting_idx, rvalue) ==
    IF rvalue THEN NoTwin ELSE EnumeratorImpl(iterable, starting_idx)

----------------------------------------------------------------------------
(* zip: storage_ is the sequence of inputs, state_ the sequence of their   *)
(* markers; the recursion over IDX is the recursion of the templates       *)
(* (IDX counts from 1 here, from 0 in the source).                         *)

RECURSIVE ZipState(_, _)
ZipState(storage, IDX) ==
    IF IDX = Len(storage)
    THEN <<std_begin(storage[IDX])>>
    ELSE <<std_begin(storage[IDX])>> \o ZipState(storage, IDX + 1)

\* Mutant: the marker of this depth is incremented, the remaining ones are not.
ZipState_inc_own_only(state, storage, IDX, o) ==
    [state EXCEPT ![IDX] = iter_inc(state[IDX], storage[IDX], o)]

RECURSIVE ZipState_inc(_, _, _, _)
ZipState_inc(state, storage, IDX, o) ==
    LET incremented == [state EXCEPT ![IDX] = iter_inc(state[IDX], storage[IDX], o)]
    IN  IF IDX = Len(storage)
        THEN incremented
        ELSE ZipState_inc(incremented, storage, IDX + 1, o)

\* Mutant: only the marker of this depth is compared, not the remaining ones.
ZipState_can_advance_own_only(state, storage, IDX) ==
    state[IDX] # std_end(storage[IDX])

RECURSIVE ZipState_can_advance(_, _, _)
ZipState_can_advance(state, storage, IDX) ==
    IF IDX = Len(storage)
    THEN state[IDX] # std_end(storage[IDX])
    ELSE /\ state[IDX] # std_end(storage[IDX])
         /\ ZipState_can_advance(state, storage, IDX + 1)

\* get<N> of the last ZipState returns nothing when N is not its IDX.
Void == <<>>

RECURSIVE ZipState_get(_, _, _, _, _)
ZipState_get(state, storage, IDX, N, garbage) ==
    IF N = IDX THEN iter_deref(state[IDX], storage[IDX], garbage)
    ELSE IF IDX = Len(storage) THEN Void
    ELSE ZipState_get(state, storage, IDX + 1, N, garbage)

\* zip{iterables...}: aggregate initialisation of storage_, then state_{storage_}.
zip(iterables) ==
    [kind     |-> "zip",
     storage_ |-> iterables,
     state_   |-> ZipState(iterables, 1)]

zip_deref(g) == g.state_
zip_inc(g, o) == [g EXCEPT !.state_ = ZipState_inc(g.state_, g.storage_, 1, o)]
zip_inc_undefined(g) ==
    \E k \in DOMAIN g.storage_ : iter_inc_undefined(g.state_[k], g.storage_[k])
zip_bool(g) == ZipState_can_advance(g.state_, g.storage_, 1)

----------------------------------------------------------------------------
(* the operators of whichever generator is being driven *)

op_bool(g) ==
    CASE g.kind = "range"     -> RangeImpl_bool(g)
      [] g.kind = "enumerate" -> enumerate_bool(g)
      [] g.kind = "zip"       -> zip_bool(g)

op_bool_undefined(g) == g.kind = "range" /\ RangeImpl_bool_overflows(g)

op_deref(g) ==
    CASE g.kind = "range"     -> RangeImpl_deref(g)
      [] g.kind = "enumerate" -> enumerate_deref(g)
      [] g.kind = "zip"       -> zip_deref(g)

op_inc(g, o) ==
    CASE g.kind = "range"     -> RangeImpl_inc(g)
      [] g.kind = "enumerate" -> enumerate_inc(g, o)
      [] g.kind = "zip"       -> zip_inc(g, o)

op_inc_undefined(g) ==
    CASE g.kind = "range"     -> RangeImpl_inc_overflows(g)
      [] g.kind = "enumerate" -> enumerate_inc_undefined(g)
      [] g.kind = "zip"       -> zip_inc_undefined(g)

\* Guard that keeps the markers of a release build within MaxPast of their end.
WithinPast(g) ==
    CASE g.kind = "range"     -> TRUE
      [] g.kind = "enumerate" -> g.state_.iter_ < std_end(g.iterable_) + MaxPast
      [] g.kind = "zip"       ->
            \A k \in DOMAIN g.storage_ :
                g.state_[k] < std_end(g.storage_[k]) + MaxPast

\* What the loop variable is bound to: the value of a range, the structured
\* binding [get<0>, get<1>] of an EnumerateState, [get<0>, ...] of a ZipState.
Bound(g, garbage) ==
    CASE g.kind = "range"     -> op_deref(g)
      [] g.kind = "enumerate" ->
            <<EnumerateState_get(op_deref(g), g.iterable_, 0, garbage),
              EnumerateState_get(op_deref(g), g.iterable_, 1, garbage)>>
      [] g.kind = "zip"       ->
            [k \in DOMAIN g.storage_ |->
                ZipState_get(op_deref(g), g.storage_, 1, k, garbage)]

Bound_undefined(g) ==
    CASE g.kind = "range"     -> FALSE
      [] g.kind = "enumerate" -> iter_deref_undefined(g.state_.iter_, g.iterable_)
      [] g.kind = "zip"       ->
            \E k \in DOMAIN g.storage_ :
                iter_deref_undefined(g.state_[k], g.storage_[k])

----------------------------------------------------------------------------
(* construction *)

Builds == {"release", "checked"}
Modes == {"loop", "free"}

\* The construction calls of the library: range(end), range(begin, end),
\* range(begin, end, step); enumerate{input}, enumerate{input, starting_idx};
\* zip{input, ...}.
RangeCtors ==
    [fn : {"range"}, arity : {1}, begin : {0}, end : IntW, step : {1}]
        \cup [fn : {"range"}, arity : {2}, begin : IntW, end : IntW, step : {1}]
        \cup [fn : {"range"}, arity : {3}, begin : IntW, end : IntW, step : IntW]
\* Each input is an lvalue of the caller (owned = FALSE) or a temporary such
\* as get_vec() (owned = TRUE); a zip is given at most one temporary.
EnumerateCtors ==
    [fn : {"enumerate"}, arity : {1}, iterable : Iterables, starting_idx : {0},
     owned : BOOLEAN]
        \cup [fn : {"enumerate"}, arity : {2}, iterable : Iterables,
              starting_idx : IntW, owned : BOOLEAN]
ZipCtors ==
    UNION {[fn : {"zip"}, iterables : [1 .. n -> Iterables],
            owned : {f \in [1 .. n -> BOOLEAN] :
                        Cardinality({k \in 1 .. n : f[k]}) <= 1}] : n \in 1 .. MaxN}

\* Mutant: the temporary is gone once the generator is built, and the
\* generator sees no elements.
Bind_dangling(input, owned) == IF owned THEN <<>> ELSE input

\* What the member `Iterable iterable_` (Iterable = decltype(iterable), a
\* reference type) refers to: the caller's sequence, or the temporary, whose
\* lifetime the aggregate initialisation extends to that of the generator.
Bind(input, owned) == input
Ctors == RangeCtors \cup EnumerateCtors \cup ZipCtors

Construct(c) ==
    CASE c.fn = "range" /\ c.arity = 1 -> range_end(c.end)
      [] c.fn = "range" /\ c.arity = 2 -> range_begin_end(c.begin, c.end)
      [] c.fn = "range" /\ c.arity = 3 -> range_begin_end_step(c.begin, c.end, c.step)
      [] c.fn = "enumerate"            ->
            enumerate(Bind(c.iterable, c.owned), c.starting_idx)
      [] c.fn = "zip"                  ->
            zip([k \in DOMAIN c.iterables |-> Bind(c.iterables[k], c.owned[k])])

Construct_undefined(c) ==
    c.fn = "range" /\ RangeImpl_overflows(c.begin, c.end, c.step)

Init ==
    /\ build \in Builds
    /\ mode \in Modes
    /\ ctor \in Ctors
    /\ gen = Construct(ctor)
    /\ status = IF build = "checked" /\ Construct_undefined(ctor) THEN "aborted" ELSE "ok"
    /\ pc = IF mode = "loop" THEN "test" ELSE "free"
    /\ out = <<>>
    /\ last_op = "none"
    /\ hm = <<>>
    /\ cur = <<>>
    /\ advances = 0
    /\ twin = IF ctor.fn = "enumerate"
              THEN util_gen_enumerate(ctor.iterable, ctor.starting_idx, ctor.owned)
              ELSE NoTwin

----------------------------------------------------------------------------
(* one call of each operator on the generator *)

Abort(op) ==
    /\ status' = "aborted"
    /\ last_op' = op
    /\ UNCHANGED <<gen, hm, cur, advances, twin>>

\* explicit operator bool() const
call_bool ==
    IF build = "checked" /\ op_bool_undefined(gen)
    THEN Abort("bool")
    ELSE /\ hm' = <<op_bool(gen)>>
         /\ last_op' = "bool"
         /\ UNCHANGED <<gen, cur, status, advances, twin>>

\* Mutant: reading the current value also consumes it.
call_deref_consuming ==
    /\ cur' = <<op_deref(gen)>>
    /\ last_op' = "deref"
    /\ gen' = op_inc(gen, "next")
    /\ UNCHANGED <<hm, status, advances, twin>>

\* operator*()
call_deref ==
    /\ cur' = <<op_deref(gen)>>
    /\ last_op' = "deref"
    /\ UNCHANGED <<gen, hm, status, advances, twin>>

\* operator++()
call_inc ==
    IF build = "checked" /\ op_inc_undefined(gen)
    THEN Abort("inc")
    ELSE /\ \E o \in PastEndOutcomes :
                /\ gen' = op_inc(gen, o)
                /\ twin' = IF twin = NoTwin THEN twin ELSE EnumeratorImpl_inc(twin, o)
         /\ advances' = IF advances < MaxAdvances THEN advances + 1 ELSE advances
         /\ hm' = <<>>
         /\ cur' = <<>>
         /\ last_op' = "inc"
         /\ UNCHANGED status

\* The cursor of the loop bridge: it != end, *it, ++it.
GeneratorIterator_ne == call_bool
GeneratorIterator_deref == call_deref
GeneratorIterator_inc == call_inc

----------------------------------------------------------------------------
(* a client that calls the operators directly, in any order *)

GenBool ==
    /\ mode = "free" /\ status = "ok"
    /\ call_bool
    /\ UNCHANGED <<ctor, build, mode, pc, out>>

GenDeref ==
    /\ mode = "free" /\ status = "ok"
    /\ call_deref
    /\ UNCHANGED <<ctor, build, mode, pc, out>>

GenInc ==
    /\ mode = "free" /\ status = "ok"
    /\ WithinPast(gen)
    /\ call_inc
    /\ UNCHANGED <<ctor, build, mode, pc, out>>

----------------------------------------------------------------------------
(* for (auto&& x : generator) { body }                                     *)
(*   it = begin();  while (it != end()) { x = *it; body; ++it; }           *)

LoopTest ==
    /\ mode = "loop" /\ status = "ok" /\ pc = "test"
    /\ GeneratorIterator_ne
    /\ pc' = IF status' = "aborted" THEN pc
             ELSE IF hm'[1] THEN "deref" ELSE "done"
    /\ UNCHANGED <<ctor, build, mode, out>>

\* The values received are recorded up to MaxOut of them.
LoopDeref ==
    /\ mode = "loop" /\ status = "ok" /\ pc = "deref"
    /\ GeneratorIterator_deref
    /\ IF build = "checked" /\ Bound_undefined(gen)
       THEN UNCHANGED <<pc, out>>
       ELSE /\ \E garbage \in Garbage :
                out' = IF Len(out) < MaxOut
                       THEN Append(out, Bound(gen, garbage))
                       ELSE out
            /\ pc' = "incr"
    /\ UNCHANGED <<ctor, build, mode>>

\* Mutant: after the increment the loop goes on without testing.
LoopIncr_untested ==
    /\ mode = "loop" /\ status = "ok" /\ pc = "incr"
    /\ WithinPast(gen)
    /\ GeneratorIterator_inc
    /\ pc' = IF status' = "aborted" THEN pc ELSE "deref"
    /\ UNCHANGED <<ctor, build, mode, out>>

LoopIncr ==
    /\ mode = "loop" /\ status = "ok" /\ pc = "incr"
    /\ WithinPast(gen)
    /\ GeneratorIterator_inc
    /\ pc' = IF status' = "aborted" THEN pc ELSE "test"
    /\ UNCHANGED <<ctor, build, mode, out>>

Next ==
    \/ GenBool
    \/ GenDeref
    \/ GenInc
    \/ LoopTest
    \/ LoopDeref
    \/ LoopIncr

Spec == Init /\ [][Next]_vars

\* The program is one thread that runs on as long as it has a next step.
SpecFair == Spec /\ WF_vars(Next)

----------------------------------------------------------------------------
(* what the claims speak of *)

IsPrefix(a, b) == Len(a) <= Len(b) /\ \A i \in 1 .. Len(a) : a[i] = b[i]

Min(S) == CHOOSE m \in S : \A x \in S : m <= x

\* The arithmetic progression begin, begin + step, ... strictly before end,
\* over the mathematical integers.
Progression(begin, end, step) ==
    LET n == IF step > 0
             THEN (IF begin >= end THEN 0 ELSE ((end - begin - 1) \div step) + 1)
             ELSE (IF begin <= end THEN 0 ELSE ((begin - end - 1) \div (-step)) + 1)
    IN  [k \in 1 .. n |-> begin + (k - 1) * step]

\* The pairs (s + i, S[i]), i = 0 .. L-1.
Pairs(S, s) == [i \in 1 .. Len(S) |-> <<s + i - 1, S[i]>>]

\* The tuples (S1[i], ..., Sn[i]), i = 0 .. min(L1..Ln)-1.
Tuples(Ss) ==
    LET m == Min({Len(Ss[k]) : k \in DOMAIN Ss})
    IN  [i \in 1 .. m |-> [k \in DOMAIN Ss |-> Ss[k][i]]]

\* The loop has received nothing but the sequence expected, in order, and
\* all of it once it has ended.
Yields(expected) ==
    /\ IsPrefix(out, expected)
    /\ pc = "done" => out = expected

\* The loop goes on exactly while a part of the sequence is still to come.
GoesOn(expected) ==
    pc = "test" => (op_bool(gen) <=> Len(out) < Len(expected))

----------------------------------------------------------------------------
\* C1: for every end >= 0 the ranged-for over range(end) receives exactly
\* 0, 1, ..., end-1 in increasing order and then ends, without ever
\* aborting; range(0) yields nothing.
C1_RangeEnd ==
    (mode = "loop" /\ ctor.fn = "range" /\ ctor.arity = 1 /\ ctor.end >= 0)
        => /\ Yields([i \in 1 .. ctor.end |-> i - 1])
           /\ GoesOn([i \in 1 .. ctor.end |-> i - 1])
           /\ status = "ok"

\* range(end) with end >= 2 has been iterated to its end.
C1_Witness ==
    /\ mode = "loop" /\ ctor.fn = "range" /\ ctor.arity = 1
    /\ ctor.end >= 2 /\ pc = "done" /\ Len(out) = ctor.end

\* C2: for every begin, end and step # 0 the ranged-for over
\* range(begin, end, step) receives exactly begin, begin+step, ... for the
\* values strictly before end (below it for step > 0, above it for
\* step < 0), and end itself never.
C2_RangeHalfOpen ==
    (mode = "loop" /\ ctor.fn = "range" /\ ctor.step # 0)
        => Yields(Progression(ctor.begin, ctor.end, ctor.step))


\* C3 as stated: for any input S of length L and any starting index s the
\* ranged-for over enumerate{S, s} receives exactly the L pairs (s+i, S[i]),
\* i = 0 .. L-1, in order.
C3_EnumerateAnyStart ==
    (mode = "loop" /\ ctor.fn = "enumerate")
        => Yields(Pairs(ctor.iterable, ctor.starting_idx))

\* C3 as amended: the same for every starting index s whose last index
\* s+L-1 the index type can hold (s = 0 when omitted); the loop can abort
\* only after the L-th pair, in the increment that takes the index past
\* the largest integer.
C3_Enumerate ==
    (/\ mode = "loop" /\ ctor.fn = "enumerate"
     /\ ctor.starting_idx + Len(ctor.iterable) - 1 <= MaxInt)
        => /\ Yields(Pairs(ctor.iterable, ctor.starting_idx))
           /\ GoesOn(Pairs(ctor.iterable, ctor.starting_idx))
           /\ status = "aborted" => out = Pairs(ctor.iterable, ctor.starting_idx)

\* enumerate{S, s} with a negative s over two different elements has been
\* iterated to its end.
C3_Witness ==
    /\ mode = "loop" /\ ctor.fn = "enumerate" /\ ctor.arity = 2
    /\ ctor.starting_idx < 0 /\ ctor.iterable = <<1, 2>>
    /\ pc = "done" /\ Len(out) = 2

C5_ZeroStepFailsFast ==
    (ctor.fn = "range" /\ ctor.step = 0 /\ last_op # "none")
        => status = "aborted"

\* The inputs C6 calls empty.
EmptyInput(c) ==
    CASE c.fn = "range"     -> \/ c.step > 0 /\ c.begin >= c.end
                               \/ c.step < 0 /\ c.begin <= c.end
      [] c.fn = "enumerate" -> c.iterable = <<>>
      [] c.fn = "zip"       -> \E k \in DOMAIN c.iterables : c.iterables[k] = <<>>

\* C6: a generator over an empty input, asked before any advance, reports
\* that it has no more.
C6_EmptyHasNoMore ==
    (EmptyInput(ctor) /\ gen = Construct(ctor) /\ hm # <<>>)
        => hm = <<FALSE>>

\* C7: a call of operator bool or operator* leaves the generator as it was,
\* and returns what the last such call since the last operator++ returned.
C7_Idempotent ==
    [][last_op' \in {"bool", "deref"}
         => /\ gen' = gen
            /\ hm # <<>> => hm' = hm
            /\ cur # <<>> => cur' = cur]_vars

\* Both operators have been called again, after an advance, with no advance
\* in between.
C7_Witness ==
    /\ mode = "free" /\ gen # Construct(ctor)
    /\ last_op = "bool" /\ hm = <<TRUE>> /\ cur # <<>>

\* C8: once a generator has no more, no operation on it makes it have more.
C8_ExhaustedTerminal ==
    [][(build = "release" /\ ~op_bool(gen)) => ~op_bool(gen')]_vars

\* C9: operator* or operator++ on a generator that has no more aborts and
\* leaves the generator where it was.
C9_PastEndFailsLoudly ==
    [][(~op_bool(gen) /\ last_op' \in {"deref", "inc"})
         => (status' = "aborted" /\ gen' = gen /\ cur' = cur)]_vars

\* C10: in a ranged-for the operators are called in the order bool, deref,
\* inc, bool, ...: deref only right after a bool that returned true, inc
\* only right after that deref, neither on a generator that has no more,
\* and the loop ends at the first bool that returns false.
C10_LoopOrder ==
    [][mode = "loop"
         => /\ pc # "done"
            /\ last_op' = "bool" => last_op \in {"none", "inc"}
            /\ last_op' = "deref" => (last_op = "bool" /\ hm = <<TRUE>>)
            /\ last_op' = "inc" => (last_op = "deref" /\ hm = <<TRUE>>)
            /\ last_op' \in {"deref", "inc"} => op_bool(gen)
            /\ pc' = "done" <=> hm' = <<FALSE>>]_vars

\* A ranged-for over an enumerate has gone round twice and has ended.
C10_Witness ==
    /\ mode = "loop" /\ gen.kind = "enumerate"
    /\ pc = "done" /\ Len(out) = 2 /\ last_op = "bool" /\ hm = <<FALSE>>


----------------------------------------------------------------------------
\* The places a marker can be at after n increments from the start of its
\* input (one place as long as n is at most the length of the input).
RECURSIVE StepsPast(_, _)
StepsPast(iterable, n) ==
    IF n = 0 THEN {std_begin(iterable)}
    ELSE {iter_inc(p, iterable, o) :
            p \in StepsPast(iterable, n - 1), o \in PastEndOutcomes}

\* C11 as stated, for an enumerate that a ranged-for drives: in every state
\* the index equals the starting index plus the number of advances so far,
\* and the marker is that number of steps past the start of the input.
C11_IndexIsStartPlusAdvances ==
    (gen.kind = "enumerate" /\ mode = "loop" /\ advances < MaxAdvances)
        => /\ gen.state_.idx_ = gen.starting_idx_ + advances
           /\ gen.state_.iter_ \in StepsPast(gen.iterable_, advances)

\* C11 as amended: the index equals the starting index plus the number of
\* advances whenever the index type can hold that sum (and that sum wrapped
\* to the index type in any case); the marker is that same number of steps
\* past the start, which is that number of elements as long as it is at
\* most the length of the input.  Holding in every state, it leaves no state
\* in which one of the two has moved and the other has not.
C11_EnumerateState ==
    (gen.kind = "enumerate" /\ advances < MaxAdvances)
        => /\ gen.starting_idx_ + advances <= MaxInt
                => gen.state_.idx_ = gen.starting_idx_ + advances
           /\ gen.state_.idx_ = Wrap(gen.starting_idx_ + advances)
           /\ gen.state_.iter_ \in StepsPast(gen.iterable_, advances)
           /\ advances <= Len(gen.iterable_) => gen.state_.iter_ = advances

\* An enumerate with a starting index other than 0 has been advanced twice.
C11_Witness ==
    /\ gen.kind = "enumerate" /\ gen.starting_idx_ = 1 /\ status = "ok"
    /\ advances = 2 /\ gen.state_.idx_ = 3 /\ gen.state_.iter_ = 2

\* C12: in every state of a zip every one of the N markers has been moved
\* the same number of steps from the start of its own input, the number of
\* advances so far, that of a longer input as well as that of the shortest:
\* no operation has moved some of the markers and not the others.
C12_ZipLockstep ==
    (gen.kind = "zip" /\ advances < MaxAdvances)
        => \A k \in DOMAIN gen.storage_ :
              /\ gen.state_[k] \in StepsPast(gen.storage_[k], advances)
              /\ advances <= Len(gen.storage_[k]) => gen.state_[k] = advances

\* A zip of a shorter first and a longer second input has been advanced to
\* the end of the shorter one.
C12_Witness ==
    /\ gen.kind = "zip" /\ Len(gen.storage_) = 2
    /\ Len(gen.storage_[1]) = 1 /\ Len(gen.storage_[2]) = 2
    /\ advances = 1 /\ gen.state_ = <<1, 1>>

\* C13: operator bool of a zip returns true exactly when every marker is
\* strictly before the end of its own input.
C13_HasMoreIffAllBeforeEnd ==
    (gen.kind = "zip" /\ hm # <<>>)
        => (hm[1] <=> \A k \in DOMAIN gen.storage_ :
                        gen.state_[k] < std_end(gen.storage_[k]))


\* C14: for every begin, end and step # 0 of the integer type, operator
\* bool of a range returns value < end when step > 0 and value > end when
\* step < 0, the smallest integer as end or as value included.
C14_ContinuationPredicate ==
    (gen.kind = "range" /\ gen.step_ # 0 /\ hm # <<>>)
        => (hm[1] <=> IF gen.step_ > 0 THEN gen.val_ < ctor.end
                                      ELSE gen.val_ > ctor.end)

\* C15: for every begin, end and step # 0 the loop over a range comes to
\* its end (operator bool returns false; a trapping build may abort it
\* earlier), also when begin + k*step passes the largest or the smallest
\* integer.
C15_RangeLoopEnds ==
    (mode = "loop" /\ ctor.fn = "range" /\ ctor.step # 0)
        ~> (pc = "done" \/ status = "aborted")

Referenced(c) ==
    IF c.fn = "enumerate" THEN [c EXCEPT !.owned = FALSE]
    ELSE [c EXCEPT !.owned = [k \in DOMAIN c.owned |-> FALSE]]

Owns(c) ==
    IF c.fn = "enumerate" THEN c.owned ELSE \E k \in DOMAIN c.owned : c.owned[k]

\* The items a ranged-for over g receives in at most n rounds; it stops
\* earlier where a trapping build stops. A loop over an enumerate or a zip
\* never steps a marker past its end, so the past-the-end outcomes and
\* values are not drawn on.
RECURSIVE RunLoop(_, _)
RunLoop(g, n) ==
    IF n = 0 \/ ~op_bool(g) THEN <<>>
    ELSE <<Bound(g, 0)>> \o
            (IF build = "checked" /\ op_inc_undefined(g) THEN <<>>
             ELSE RunLoop(op_inc(g, "next"), n - 1))

C18_AdvanceFrame ==
    [][last_op' = "inc" =>
          CASE gen.kind = "range"     -> gen' = [gen EXCEPT !.val_ = gen'.val_]
            [] gen.kind = "enumerate" -> gen' = [gen EXCEPT !.state_ = gen'.state_]
            [] gen.kind = "zip"       -> gen' = [gen EXCEPT !.state_ = gen'.state_]]_vars

\* A range with step 2 has been advanced from 0 to 2.
C18_Witness ==
    /\ last_op = "inc" /\ advances = 1 /\ gen.kind = "range"
    /\ ctor.begin = 0 /\ gen.step_ = 2 /\ gen.val_ = 2 /\ gen.modded_end_ = 3

====
